---- MODULE Spec2Model ----
(***************************************************************************)
(* Model of src/data_ingestion.py: the four stage functions load_params,   *)
(* load_data, preprocess_data, save_data and the orchestrator main.        *)
(*                                                                         *)
(* Strings that the code inspects character by character (the data URL)    *)
(* are sequences of one-character strings.  Python values are records with *)
(* a "kind" field.  A call of a stage function is an operator that returns *)
(* an outcome record: the exception it raised ("none" when it returned),   *)
(* the value it returned, and the log entries it emitted.                  *)
(***************************************************************************)
EXTENDS Integers, Sequences, FiniteSets, TLC

VARIABLES
    pc,           \* position of the running code
    params_file,  \* environment: what open/yaml.safe_load find at params.yaml
    remote,       \* environment: what pd.read_csv finds at the requested URL
    fs,           \* environment: which filesystem operation of save_data fails
    params,       \* main's local params
    test_size,    \* main's local test_size
    df,           \* the DataFrame object (mutated in place by preprocess_data)
    train_data,   \* main's local train_data
    test_data,    \* main's local test_data
    files,        \* the CSV files under ./data/raw
    log,          \* entries emitted through logger, oldest first
    calls,        \* stages started so far, oldest first
    exc,          \* the exception caught by main's except clause, or NoExc
    printed,      \* what main printed
    escaped,      \* the exception that left main, or NoExc
    url,          \* argument of the current load_data call
    requested,    \* the URL load_data handed to pd.read_csv
    exit_status,  \* the process's exit status, or -1 while it runs
    input,        \* argument of the first call of the function under study
    ret           \* outcome of the last stage-function call

vars == <<pc, params_file, remote, fs, params, test_size, df, train_data,
          test_data, files, log, calls, exc, printed, escaped, url,
          requested, exit_status, input, ret>>

----------------------------------------------------------------------------
(* Bounds of the model *)

\* longest URL, in pieces of UrlPieces
MaxParts == 4
\* most rows of a table
MaxRows == 10

----------------------------------------------------------------------------
(* Python values *)

NoExc == "none"
None == [kind |-> "None"]
NoLogs == <<>>

Returned(v, logs) == [raised |-> NoExc, ret |-> v, logs |-> logs]
Raised(e, logs) == [raised |-> e, ret |-> None, logs |-> logs]

Debug(by) == [level |-> "DEBUG", by |-> by, exc |-> NoExc]
Info(by) == [level |-> "INFO", by |-> by, exc |-> NoExc]
Error(by, e) == [level |-> "ERROR", by |-> by, exc |-> e]

\* an except clause that logs and forgets the raise
LogWithoutRaise(by, e) == Returned(None, <<Error(by, e)>>)

\* "logger.error(...); raise" of an except clause of stage function `by`
Reraise(by, e) == Raised(e, <<Error(by, e)>>)

\* try: body / except ...: logger.error(...); raise
\* (every except clause of a stage function has this shape; the clauses of
\* one function differ in the message text only)
TryLogRaise(by, body) ==
    IF body.raised = NoExc THEN body ELSE Reraise(by, body.raised)

----------------------------------------------------------------------------
(* str: "in" and str.replace *)

GITHUB == <<"g","i","t","h","u","b",".","c","o","m">>
BLOB == <<"b","l","o","b","/">>
RAW == <<"r","a","w">>
RAWHOST == <<"r","a","w",".","g","i","t","h","u","b","u","s","e","r","c","o","n","t","e","n","t",".","c","o","m">>
HTTPS == <<"h","t","t","p","s",":","/","/">>
EMPTY == <<>>

RAW_SUBDOMAIN == <<"c","d","n",".","g","i","t","h","u","b",".","c","o","m">>

\* sub in s
Contains(s, sub) ==
    \E i \in 0..(Len(s) - Len(sub)) : SubSeq(s, i + 1, i + Len(sub)) = sub

\* s.replace(old, new), old non-empty: every non-overlapping occurrence,
\* scanning from the left
RECURSIVE Replace(_, _, _)
Replace(s, old, new) ==
    IF Len(s) < Len(old) THEN s
    ELSE IF SubSeq(s, 1, Len(old)) = old
         THEN new \o Replace(SubSeq(s, Len(old) + 1, Len(s)), old, new)
         ELSE <<Head(s)>> \o Replace(Tail(s), old, new)

----------------------------------------------------------------------------
(* load_params *)

\* open(params_path, 'r') and yaml.safe_load(file)
\* file: "absent", "unreadable", "malformed", or the parsed document
ReadYaml(file) ==
    IF file.kind = "absent" THEN Raised("FileNotFoundError", NoLogs)
    ELSE IF file.kind = "unreadable" THEN Raised("PermissionError", NoLogs)
    ELSE IF file.kind = "malformed" THEN Raised("YAMLError", NoLogs)
    ELSE Returned(file.doc, <<Debug("load_params")>>)

load_params(file) == TryLogRaise("load_params", ReadYaml(file))

\* obj[key]
Subscript(obj, key) ==
    IF obj.kind # "dict" THEN Raised("TypeError", NoLogs)
    ELSE IF key \notin DOMAIN obj.items THEN Raised("KeyError", NoLogs)
    ELSE Returned(obj.items[key], NoLogs)

\* params['data_ingestion']['test_size']
ReadTestSize(p) ==
    LET outer == Subscript(p, "data_ingestion")
    IN  IF outer.raised # NoExc THEN outer
        ELSE Subscript(outer.ret, "test_size")

----------------------------------------------------------------------------
(* load_data *)

\* the condition of the if statement
NeedsRewrite(data_url) == Contains(data_url, GITHUB) /\ ~Contains(data_url, RAW)

\* a rewrite to a host that is itself under github.com
RewriteToSubdomain(data_url) ==
    Replace(Replace(data_url, BLOB, EMPTY), GITHUB, RAW_SUBDOMAIN)

\* the assignment in the if statement
Rewrite(data_url) == Replace(Replace(data_url, BLOB, EMPTY), GITHUB, RAWHOST)

\* the value of data_url when pd.read_csv is called
RequestUrl(data_url) ==
    IF NeedsRewrite(data_url) THEN Rewrite(data_url) ELSE data_url

\* pd.read_csv(data_url); found: what is at the requested URL, a table,
\* text that is no CSV ("ParserError"), or nothing that can be read
read_csv(found) ==
    IF found.kind = "table" THEN Returned(found, <<Debug("load_data")>>)
    ELSE Raised(found.kind, NoLogs)

load_data(data_url, found) == TryLogRaise("load_data", read_csv(found))

----------------------------------------------------------------------------
(* preprocess_data *)

\* A table: cols is the sequence of columns, each with its name and a tag
\* `data` naming the values it holds (the name the column had when it was
\* read); rows is the set of records.
Table(cols, rows) == [kind |-> "table", cols |-> cols, rows |-> rows]

Names(cols) == {cols[i].name : i \in 1..Len(cols)}

DROPPED == {"Unnamed: 2", "Unnamed: 3", "Unnamed: 4"}

RENAMED_SWAPPED == [v1 |-> "text", v2 |-> "target"]

RENAMED == [v1 |-> "target", v2 |-> "text"]

RECURSIVE Without(_, _)
Without(cols, labels) ==
    IF cols = <<>> THEN <<>>
    ELSE IF Head(cols).name \in labels THEN Without(Tail(cols), labels)
         ELSE <<Head(cols)>> \o Without(Tail(cols), labels)

\* df.drop(columns=labels, inplace=True, errors='ignore')
DropIgnoringMissing(t, labels) ==
    Returned(Table(Without(t.cols, labels), t.rows), NoLogs)

\* df.drop(columns=labels, inplace=True): KeyError when a label is no column
Drop(t, labels) ==
    IF \E l \in labels : l \notin Names(t.cols)
    THEN Raised("KeyError", NoLogs)
    ELSE Returned(Table(Without(t.cols, labels), t.rows), NoLogs)

\* df.rename(columns=mapping, inplace=True): a key that is no column is
\* ignored (errors='ignore' is the default)
Rename(t, mapping) ==
    Returned(Table([i \in 1..Len(t.cols) |->
                      IF t.cols[i].name \in DOMAIN mapping
                      THEN [t.cols[i] EXCEPT !.name = mapping[t.cols[i].name]]
                      ELSE t.cols[i]],
                   t.rows), NoLogs)

\* the body of the try block
DropThenRename(t) ==
    IF t.kind # "table" THEN Raised("AttributeError", NoLogs)
    ELSE LET dropped == Drop(t, DROPPED)
         IN  IF dropped.raised # NoExc THEN dropped
             ELSE LET renamed == Rename(dropped.ret, RENAMED)
                  IN  Returned(renamed.ret, <<Debug("preprocess_data")>>)

preprocess_data(t) == TryLogRaise("preprocess_data", DropThenRename(t))

----------------------------------------------------------------------------
(* train_test_split(final_df, test_size=test_size, random_state=2) *)

FloatSize(num, den) == [kind |-> "float", num |-> num, den |-> den]
IntSize(value) == [kind |-> "int", value |-> value]
StrSize == [kind |-> "str"]

\* ceil(num * n / den)
CeilDiv(num, n, den) == ((num * n) + den - 1) \div den

\* test_size=None with train_size=None stands for 0.25
SizeOrDefault(ts) == IF ts.kind = "None" THEN FloatSize(1, 4) ELSE ts

\* whether the size is refused for n rows
BadSize(ts, n) ==
    IF ts.kind = "float" THEN ts.num <= 0 \/ ts.num >= ts.den
    ELSE IF ts.kind = "int" THEN ts.value <= 0 \/ ts.value >= n
    ELSE TRUE

\* the number of test rows had the fraction been passed as train_size
NTestOfTrainSize(ts, n) ==
    IF ts.kind = "float" THEN n - ((ts.num * n) \div ts.den) ELSE n - ts.value

\* the number of test rows for n rows
NTest(ts, n) ==
    IF ts.kind = "float" THEN CeilDiv(ts.num, n, ts.den) ELSE ts.value

\* the sets of rows the shuffle with random_state=2 may put in the test
\* partition: the permutation is the generator's, so any subset of the
\* right size
TestChoices(t, ts) ==
    LET size == SizeOrDefault(ts)
        n == Cardinality(t.rows)
    IN  IF BadSize(size, n) THEN {{}}
        ELSE {c \in SUBSET t.rows : Cardinality(c) = NTest(size, n)}

\* chosen: the test rows picked by the shuffle, one of TestChoices
train_test_split(t, ts, chosen) ==
    LET size == SizeOrDefault(ts)
        n == Cardinality(t.rows)
    IN  IF BadSize(size, n) THEN Raised("ValueError", NoLogs)
        ELSE IF n - NTest(size, n) = 0 THEN Raised("ValueError", NoLogs)
        ELSE Returned([train |-> Table(t.cols, t.rows \ chosen),
                       test |-> Table(t.cols, chosen)], NoLogs)

----------------------------------------------------------------------------
(* save_data *)

NoFile == [kind |-> "absent"]
NoFiles == [train |-> NoFile, test |-> NoFile]

\* DataFrame.to_csv(path, index=False): a header row of the column names,
\* then the records, without the index
to_csv(t) ==
    [kind |-> "csv",
     header |-> [i \in 1..Len(t.cols) |-> t.cols[i].name],
     data |-> [i \in 1..Len(t.cols) |-> t.cols[i].data],
     records |-> t.rows]

\* the files after the try block; failing: the call that raises OSError,
\* "makedirs", "train" or "test", or "none"
Written(old, train, test, failing) ==
    IF failing = "makedirs" THEN old
    ELSE IF failing = "train" THEN old
    ELSE IF failing = "test" THEN [old EXCEPT !.train = to_csv(train)]
    ELSE [train |-> to_csv(train), test |-> to_csv(test)]

\* the body of the try block
MakedirsAndWrite(failing) ==
    IF failing = "none" THEN Returned(None, <<Debug("save_data")>>)
    ELSE Raised("OSError", NoLogs)

save_data(train, test, failing) ==
    TryLogRaise("save_data", MakedirsAndWrite(failing))

----------------------------------------------------------------------------
(* main *)

\* the literal data_path passed to load_data
DATA_URL ==
    HTTPS \o GITHUB
    \o <<"/","v","i","k","a","s","h","i","s","h","e","r","e","/","Y","T","-","M","L","O","P","S","-","C","o","m","p","l","e","t","e","-","M","L","-","P","i","p","e","l","i","n","e","/">>
    \o BLOB
    \o <<"m","a","i","n","/","e","x","p","e","r","i","m","e","n","t","s","/","s","p","a","m",".","c","s","v">>

\* main with the data loaded before test_size is read
AfterWithEarlyFetch(stage) ==
    CASE stage = "start" -> "load_params"
      [] stage = "load_params" -> "load_data"
      [] stage = "load_data" -> "test_size"
      [] stage = "test_size" -> "preprocess_data"
      [] stage = "preprocess_data" -> "train_test_split"
      [] stage = "train_test_split" -> "save_data"
      [] stage = "save_data" -> "completed"
      [] stage = "completed" -> "return"

\* the statement that follows `stage` in the try block
After(stage) ==
    CASE stage = "start" -> "load_params"
      [] stage = "load_params" -> "test_size"
      [] stage = "test_size" -> "load_data"
      [] stage = "load_data" -> "preprocess_data"
      [] stage = "preprocess_data" -> "train_test_split"
      [] stage = "train_test_split" -> "save_data"
      [] stage = "save_data" -> "completed"
      [] stage = "completed" -> "return"

\* a try block whose statements each swallow their failure
ContinueAfterFailure(r, stage) == After(stage)

\* where control goes after a statement of the try block with outcome r:
\* to the next statement, or to the except clause
Continue(r, stage) == IF r.raised = NoExc THEN After(stage) ELSE "except"

\* an except clause that ends with raise
HandlerThatRaises(e) ==
    [logs |-> <<Error("main", e)>>, printed |-> <<e>>, escaped |-> e]

\* except Exception as e: logger.error(...); print(...)
\* every exception the stages raise is an Exception; nothing is raised again
Handler(e) ==
    [logs |-> <<Error("main", e)>>, printed |-> <<e>>, escaped |-> NoExc]

\* the interpreter's exit status after the entry point ran main(): 1 when an
\* exception left main, 0 otherwise (no sys.exit anywhere)
ExitStatus(e) == IF e = NoExc THEN 0 ELSE 1

MainStart ==
    /\ pc = "start"
    /\ log' = Append(log, Info("main"))
    /\ pc' = After("start")
    /\ UNCHANGED <<params_file, remote, fs, params, test_size, df, train_data,
                   test_data, files, calls, exc, printed, escaped, url,
                   requested, exit_status, input, ret>>

MainLoadParams ==
    /\ pc = "load_params"
    /\ LET r == load_params(params_file)
       IN  /\ ret' = r
           /\ log' = log \o r.logs
           /\ params' = IF r.raised = NoExc THEN r.ret ELSE params
           /\ exc' = r.raised
           /\ pc' = Continue(r, "load_params")
    /\ calls' = Append(calls, "load_params")
    /\ UNCHANGED <<params_file, remote, fs, test_size, df, train_data,
                   test_data, files, printed, escaped, url, requested,
                   exit_status, input>>

MainReadTestSize ==
    /\ pc = "test_size"
    /\ LET r == ReadTestSize(params)
       IN  /\ ret' = r
           /\ test_size' = IF r.raised = NoExc THEN r.ret ELSE test_size
           /\ exc' = r.raised
           /\ pc' = Continue(r, "test_size")
    /\ calls' = Append(calls, "test_size")
    /\ UNCHANGED <<params_file, remote, fs, params, df, train_data, test_data,
                   files, log, printed, escaped, url, requested, exit_status,
                   input>>

MainLoadData ==
    /\ pc = "load_data"
    /\ LET r == load_data(DATA_URL, remote)
       IN  /\ ret' = r
           /\ log' = log \o r.logs
           /\ df' = IF r.raised = NoExc THEN r.ret ELSE df
           /\ exc' = r.raised
           /\ pc' = Continue(r, "load_data")
    /\ url' = DATA_URL
    /\ requested' = RequestUrl(DATA_URL)
    /\ calls' = Append(calls, "load_data")
    /\ UNCHANGED <<params_file, remote, fs, params, test_size, train_data,
                   test_data, files, printed, escaped, exit_status, input>>

\* final_df = preprocess_data(df): final_df and df are the same object
MainPreprocess ==
    /\ pc = "preprocess_data"
    /\ LET r == preprocess_data(df)
       IN  /\ ret' = r
           /\ log' = log \o r.logs
           /\ df' = IF r.raised = NoExc THEN r.ret ELSE df
           /\ exc' = r.raised
           /\ pc' = Continue(r, "preprocess_data")
    /\ input' = df
    /\ calls' = Append(calls, "preprocess_data")
    /\ UNCHANGED <<params_file, remote, fs, params, test_size, train_data,
                   test_data, files, printed, escaped, url, requested,
                   exit_status>>

MainSplit ==
    /\ pc = "train_test_split"
    /\ \E chosen \in TestChoices(df, test_size) :
          LET r == train_test_split(df, test_size, chosen)
          IN  /\ ret' = r
              /\ train_data' = IF r.raised = NoExc THEN r.ret.train ELSE train_data
              /\ test_data' = IF r.raised = NoExc THEN r.ret.test ELSE test_data
              /\ exc' = r.raised
              /\ pc' = Continue(r, "train_test_split")
    /\ calls' = Append(calls, "train_test_split")
    /\ UNCHANGED <<params_file, remote, fs, params, test_size, df, files, log,
                   printed, escaped, url, requested, exit_status, input>>

MainSaveData ==
    /\ pc = "save_data"
    /\ LET r == save_data(train_data, test_data, fs)
       IN  /\ ret' = r
           /\ log' = log \o r.logs
           /\ exc' = r.raised
           /\ pc' = Continue(r, "save_data")
    /\ files' = Written(files, train_data, test_data, fs)
    /\ calls' = Append(calls, "save_data")
    /\ UNCHANGED <<params_file, remote, fs, params, test_size, df, train_data,
                   test_data, printed, escaped, url, requested, exit_status,
                   input>>

MainCompleted ==
    /\ pc = "completed"
    /\ log' = Append(log, Info("main"))
    /\ pc' = After("completed")
    /\ UNCHANGED <<params_file, remote, fs, params, test_size, df, train_data,
                   test_data, files, calls, exc, printed, escaped, url,
                   requested, exit_status, input, ret>>

MainExcept ==
    /\ pc = "except"
    /\ LET h == Handler(exc)
       IN  /\ log' = log \o h.logs
           /\ printed' = h.printed
           /\ escaped' = h.escaped
    /\ pc' = "return"
    /\ UNCHANGED <<params_file, remote, fs, params, test_size, df, train_data,
                   test_data, files, calls, exc, url, requested, exit_status,
                   input, ret>>

\* if __name__ == '__main__': main(), then the interpreter exits
EntryPointExit ==
    /\ pc = "return"
    /\ exit_status' = ExitStatus(escaped)
    /\ pc' = "exited"
    /\ UNCHANGED <<params_file, remote, fs, params, test_size, df, train_data,
                   test_data, files, log, calls, exc, printed, escaped, url,
                   requested, input, ret>>

----------------------------------------------------------------------------
(* The environments a run may meet *)

Dict(items) == [kind |-> "dict", items |-> items]
EmptyDict == Dict([k \in {} |-> None])

TestSizes ==
    {FloatSize(1, 5), FloatSize(1, 2), FloatSize(1, 1), IntSize(2), StrSize, None}

Documents ==
    {None, EmptyDict, Dict("data_ingestion" :> None),
     Dict("data_ingestion" :> EmptyDict)}
    \cup {Dict("data_ingestion" :> Dict("test_size" :> v)) : v \in TestSizes}

ParamsFiles ==
    {[kind |-> "absent"], [kind |-> "unreadable"], [kind |-> "malformed"]}
    \cup {[kind |-> "document", doc |-> d] : d \in Documents}

\* the column names of a CSV file, in the file's order
COLUMN_ORDER ==
    <<"v1", "v2", "Unnamed: 2", "Unnamed: 3", "Unnamed: 4", "Unnamed: 5">>

RECURSIVE ColumnsIn(_, _)
ColumnsIn(order, present) ==
    IF order = <<>> THEN <<>>
    ELSE IF Head(order) \in present
         THEN <<[name |-> Head(order), data |-> Head(order)]>>
              \o ColumnsIn(Tail(order), present)
         ELSE ColumnsIn(Tail(order), present)

Range(seq) == {seq[i] : i \in 1..Len(seq)}

Tables(order) ==
    {Table(ColumnsIn(order, present), 1..n) :
        present \in SUBSET Range(order), n \in 0..MaxRows}

\* pd.read_csv returns a table with at least one column; a file without any
\* raises EmptyDataError
Remotes ==
    {[kind |-> "ParserError"], [kind |-> "URLError"], [kind |-> "EmptyDataError"]}
    \cup {t \in Tables(COLUMN_ORDER) : t.cols # <<>>}

FsFailures == {"none", "makedirs", "train", "test"}

Init ==
    /\ pc = "start"
    /\ params_file \in ParamsFiles
    /\ remote \in Remotes
    /\ fs \in FsFailures
    /\ params = None
    /\ test_size = None
    /\ df = None
    /\ train_data = None
    /\ test_data = None
    /\ files = NoFiles
    /\ log = <<>>
    /\ calls = <<>>
    /\ exc = NoExc
    /\ printed = <<>>
    /\ escaped = NoExc
    /\ url = EMPTY
    /\ requested = EMPTY
    /\ exit_status = -1
    /\ input = None
    /\ ret = None

Next ==
    \/ MainStart
    \/ MainLoadParams
    \/ MainReadTestSize
    \/ MainLoadData
    \/ MainPreprocess
    \/ MainSplit
    \/ MainSaveData
    \/ MainCompleted
    \/ MainExcept
    \/ EntryPointExit

Spec == Init /\ [][Next]_vars

----------------------------------------------------------------------------
(* load_data called on any URL, then called again on the URL it requested *)

REPO_PATH == <<"/","u","/","r","/","b","l","o","b","/","m","a","i","n","/">>
FILE_NAME == <<"x",".","c","s","v">>

UrlPieces ==
    {GITHUB, BLOB, RAW, <<"g","i","t","h","u">>, <<"b",".","c","o","m">>,
     REPO_PATH, FILE_NAME}

\* the concatenations of at most k pieces
RECURSIVE Concatenations(_)
Concatenations(k) ==
    IF k = 0 THEN {EMPTY}
    ELSE LET shorter == Concatenations(k - 1)
         IN  shorter \cup {p \o u : p \in UrlPieces, u \in shorter}

Urls == {scheme \o rest : scheme \in {EMPTY, HTTPS}, rest \in Concatenations(MaxParts)}

UrlFound ==
    {[kind |-> "ParserError"], [kind |-> "URLError"], [kind |-> "EmptyDataError"],
     Table(ColumnsIn(COLUMN_ORDER, Range(COLUMN_ORDER)), {1})}

InitUrl ==
    /\ pc = "load_data"
    /\ url \in Urls
    /\ remote \in UrlFound
    /\ params_file = [kind |-> "absent"]
    /\ fs = "none"
    /\ params = None
    /\ test_size = None
    /\ df = None
    /\ train_data = None
    /\ test_data = None
    /\ files = NoFiles
    /\ log = <<>>
    /\ calls = <<>>
    /\ exc = NoExc
    /\ printed = <<>>
    /\ escaped = NoExc
    /\ requested = EMPTY
    /\ exit_status = -1
    /\ input = EMPTY
    /\ ret = None

\* df = load_data(url)
UrlLoadData ==
    /\ pc = "load_data"
    /\ LET r == load_data(url, remote)
       IN  /\ ret' = r
           /\ log' = log \o r.logs
           /\ df' = IF r.raised = NoExc THEN r.ret ELSE df
           /\ exc' = r.raised
    /\ input' = url
    /\ requested' = RequestUrl(url)
    /\ calls' = Append(calls, "load_data")
    /\ pc' = "loaded"
    /\ UNCHANGED <<params_file, remote, fs, params, test_size, train_data,
                   test_data, files, printed, escaped, url, exit_status>>

\* df = load_data(requested): the URL of the first request is the argument
UrlLoadAgain ==
    /\ pc = "loaded"
    /\ LET r == load_data(requested, remote)
       IN  /\ ret' = r
           /\ log' = log \o r.logs
           /\ df' = IF r.raised = NoExc THEN r.ret ELSE df
           /\ exc' = r.raised
    /\ url' = requested
    /\ requested' = RequestUrl(requested)
    /\ calls' = Append(calls, "load_data")
    /\ pc' = "reloaded"
    /\ UNCHANGED <<params_file, remote, fs, params, test_size, train_data,
                   test_data, files, printed, escaped, exit_status, input>>

NextUrl ==
    \/ UrlLoadData
    \/ UrlLoadAgain

SpecUrl == InitUrl /\ [][NextUrl]_vars

----------------------------------------------------------------------------
(* preprocess_data called on any table, then called again on its result *)

PRE_COLUMN_ORDER ==
    <<"v1", "v2", "Unnamed: 2", "Unnamed: 3", "Unnamed: 4", "Unnamed: 5", "target">>

InitPre ==
    /\ pc = "preprocess_data"
    /\ df \in Tables(PRE_COLUMN_ORDER)
    /\ params_file = [kind |-> "absent"]
    /\ remote = [kind |-> "URLError"]
    /\ fs = "none"
    /\ params = None
    /\ test_size = None
    /\ train_data = None
    /\ test_data = None
    /\ files = NoFiles
    /\ log = <<>>
    /\ calls = <<>>
    /\ exc = NoExc
    /\ printed = <<>>
    /\ escaped = NoExc
    /\ url = EMPTY
    /\ requested = EMPTY
    /\ exit_status = -1
    /\ input = None
    /\ ret = None

\* out = preprocess_data(df): df is changed in place and returned
PreFirst ==
    /\ pc = "preprocess_data"
    /\ LET r == preprocess_data(df)
       IN  /\ ret' = r
           /\ log' = log \o r.logs
           /\ df' = IF r.raised = NoExc THEN r.ret ELSE df
           /\ exc' = r.raised
           /\ pc' = IF r.raised = NoExc THEN "preprocessed" ELSE "failed"
    /\ input' = df
    /\ calls' = Append(calls, "preprocess_data")
    /\ UNCHANGED <<params_file, remote, fs, params, test_size, train_data,
                   test_data, files, printed, escaped, url, requested,
                   exit_status>>

\* preprocess_data(out), after a first call that returned
PreSecond ==
    /\ pc = "preprocessed"
    /\ LET r == preprocess_data(df)
       IN  /\ ret' = r
           /\ log' = log \o r.logs
           /\ df' = IF r.raised = NoExc THEN r.ret ELSE df
           /\ exc' = r.raised
           /\ pc' = IF r.raised = NoExc THEN "preprocessed_twice" ELSE "failed_twice"
    /\ calls' = Append(calls, "preprocess_data")
    /\ UNCHANGED <<params_file, remote, fs, params, test_size, train_data,
                   test_data, files, printed, escaped, url, requested,
                   exit_status, input>>

NextPre ==
    \/ PreFirst
    \/ PreSecond

SpecPre == InitPre /\ [][NextPre]_vars

----------------------------------------------------------------------------
(* Properties of main *)

STAGE_ORDER ==
    <<"load_params", "test_size", "load_data", "preprocess_data",
      "train_test_split", "save_data">>

STAGE_FUNCTIONS == {"load_params", "load_data", "preprocess_data", "save_data"}

IsPrefix(a, b) == Len(a) <= Len(b) /\ a = SubSeq(b, 1, Len(a))

Ended == pc \in {"return", "exited"}

\* C1: the stages are started in the order load_params, read of test_size,
\* load_data, preprocess_data, train_test_split, save_data, and once a stage
\* has failed no further stage is started.
C1_SequentialAbort ==
    [][IsPrefix(calls', STAGE_ORDER) /\ (exc # NoExc => calls' = calls)]_vars

C1_Witness ==
    /\ pc = "exited"
    /\ exc = "KeyError"
    /\ calls = <<"load_params", "test_size", "load_data", "preprocess_data">>

\* the failure a stage function meets in this run's environment
Cause(stage) ==
    IF stage = "load_params"
    THEN (CASE params_file.kind = "absent" -> "FileNotFoundError"
            [] params_file.kind = "unreadable" -> "PermissionError"
            [] params_file.kind = "malformed" -> "YAMLError"
            [] OTHER -> NoExc)
    ELSE IF stage = "load_data"
    THEN (IF remote.kind = "table" THEN NoExc ELSE remote.kind)
    ELSE IF stage = "preprocess_data"
    THEN (IF DROPPED \subseteq Names(remote.cols) THEN NoExc ELSE "KeyError")
    ELSE (IF fs = "none" THEN NoExc ELSE "OSError")

ErrorsBy(by) == Cardinality({i \in 1..Len(log) : log[i].level = "ERROR" /\ log[i].by = by})

\* C2: a stage function that meets a failure logs one error entry and raises
\* that same failure to main, returning no value; main's except clause is the
\* only place that catches a failure without raising it again.
C2_LogOnceReraise ==
    /\ escaped = NoExc
    /\ (calls # <<>> /\ calls[Len(calls)] \in STAGE_FUNCTIONS) =>
          LET stage == calls[Len(calls)]
              cause == Cause(stage)
          IN  /\ ret.raised = cause
              /\ exc = cause
              /\ cause = NoExc => ErrorsBy(stage) = 0
              /\ cause # NoExc =>
                    /\ ret.ret = None
                    /\ ret.logs = <<Error(stage, cause)>>
                    /\ ErrorsBy(stage) = 1
                    /\ pc \in {"except", "return", "exited"}
                    /\ stage = "load_params" => params = None
                    /\ stage = "load_data" => df = None
                    /\ stage = "preprocess_data" => df = remote
                    /\ Ended => ErrorsBy("main") = 1

C2_Witness ==
    /\ pc = "exited"
    /\ calls = <<"load_params">>
    /\ exc = "YAMLError"
    /\ log = <<Info("main"), Error("load_params", "YAMLError"), Error("main", "YAMLError")>>

\* whether params['data_ingestion']['test_size'] is missing from document d
LacksTestSize(d) ==
    \/ d.kind # "dict"
    \/ "data_ingestion" \notin DOMAIN d.items
    \/ d.items["data_ingestion"].kind # "dict"
    \/ "test_size" \notin DOMAIN d.items["data_ingestion"].items

\* C3: when the loaded configuration has no data_ingestion.test_size, the
\* run fails at the read of that key with a KeyError or TypeError, and
\* load_data is never called: no URL is requested.
C3_NoFetchWithoutTestSize ==
    (params_file.kind = "document" /\ LacksTestSize(params_file.doc)) =>
        /\ "load_data" \notin Range(calls)
        /\ requested = EMPTY
        /\ pc \notin {"load_data", "preprocess_data", "train_test_split",
                      "save_data", "completed"}
        /\ Ended => /\ exc \in {"KeyError", "TypeError"}
                    /\ calls = <<"load_params", "test_size">>

C3_Witness ==
    /\ pc = "exited"
    /\ params_file = [kind |-> "document", doc |-> Dict("data_ingestion" :> EmptyDict)]
    /\ exc = "KeyError"
    /\ calls = <<"load_params", "test_size">>

\* C4: after any failure main logs it at error level, prints it and returns:
\* no exception leaves main and the exit status is 0, as after a success.
C4_FailureReturnsNormally ==
    /\ escaped = NoExc
    /\ (Ended /\ exc # NoExc) =>
          /\ log[Len(log)] = Error("main", exc)
          /\ printed = <<exc>>
    /\ (Ended /\ exc = NoExc) => printed = <<>>
    /\ pc = "exited" => exit_status = 0

C4_Witness ==
    /\ pc = "exited"
    /\ exc = "OSError"
    /\ printed = <<"OSError">>
    /\ exit_status = 0

ValidFraction(ts) == ts.kind = "float" /\ 0 < ts.num /\ ts.num < ts.den

Abs(x) == IF x < 0 THEN -x ELSE x

\* C8: for a test_size f in (0,1) and a processed table of n rows, the train
\* and test partitions are disjoint, together hold the n rows, and the test
\* partition's size is within one row of f * n; 10 rows and f = 0.2 give 8
\* train rows and 2 test rows.
C8_SplitSizes ==
    (train_data.kind = "table" /\ ValidFraction(test_size)) =>
        LET n == Cardinality(df.rows)
            tr == train_data.rows
            te == test_data.rows
        IN  /\ tr \cap te = {}
            /\ tr \cup te = df.rows
            /\ Cardinality(tr) + Cardinality(te) = n
            /\ Abs(test_size.den * Cardinality(te) - test_size.num * n) <= test_size.den
            /\ (n = 10 /\ test_size = FloatSize(1, 5)) =>
                  Cardinality(tr) = 8 /\ Cardinality(te) = 2
            /\ train_data.cols = df.cols
            /\ test_data.cols = df.cols

C8_Witness ==
    /\ pc = "exited"
    /\ exc = NoExc
    /\ test_size = FloatSize(1, 5)
    /\ Cardinality(df.rows) = 10
    /\ Cardinality(train_data.rows) = 8
    /\ Cardinality(test_data.rows) = 2
    /\ files.test.records = test_data.rows

----------------------------------------------------------------------------
(* Properties of load_data's URL rewrite, under SpecUrl *)

\* s with its first occurrence of old replaced by new
RECURSIVE ReplaceFirst(_, _, _)
ReplaceFirst(s, old, new) ==
    IF Len(s) < Len(old) THEN s
    ELSE IF SubSeq(s, 1, Len(old)) = old
         THEN new \o SubSeq(s, Len(old) + 1, Len(s))
         ELSE <<Head(s)>> \o ReplaceFirst(Tail(s), old, new)

\* the raw-content form of a blob URL: the host replaced by the raw-content
\* host and the blob/ segment removed, the rest of the path kept
RawContentForm(u) == ReplaceFirst(ReplaceFirst(u, BLOB, EMPTY), GITHUB, RAWHOST)

\* C5: a URL that contains github.com and no "raw" is requested in its
\* raw-content form (host replaced by raw.githubusercontent.com, the blob/
\* segment removed); a URL that contains "raw", or that does not contain
\* github.com, is requested unchanged.
C5_RewriteToRawForm ==
    pc = "loaded" =>
        /\ Contains(input, RAW) => requested = input
        /\ ~Contains(input, GITHUB) => requested = input
        /\ (Contains(input, GITHUB) /\ ~Contains(input, RAW)) =>
              requested = RawContentForm(input)

\* C10: the rewrite is idempotent: load_data called with the URL it
\* requested requests that same URL, since a rewritten URL contains "raw".
C10_RewriteIdempotent ==
    /\ pc = "reloaded" => requested = url
    /\ (pc = "loaded" /\ Contains(input, GITHUB) /\ ~Contains(input, RAW)) =>
          /\ Contains(requested, RAW)
          /\ requested # input

C10_Witness ==
    /\ pc = "reloaded"
    /\ input = HTTPS \o GITHUB \o REPO_PATH \o FILE_NAME
    /\ url # input
    /\ requested = url

----------------------------------------------------------------------------
(* Properties of preprocess_data, under SpecPre *)

REFERENCED == DROPPED \cup {"v1", "v2"}

\* C6: preprocess_data raises KeyError whenever one of the five referenced
\* column names is missing from its input, be it a dropped or a renamed one.
C6_MissingColumnRaises ==
    (pc \in {"preprocessed", "failed"} /\ ~(REFERENCED \subseteq Names(input.cols))) =>
        ret.raised = "KeyError"

HasColumn(t, name, data) ==
    \E i \in 1..Len(t.cols) : t.cols[i] = [name |-> name, data |-> data]

\* C7 as stated: for an input with at least the five referenced columns, the
\* result has exactly the two columns target (from v1) and text (from v2)
\* and the same rows.
C7_ExactlyTwoColumns ==
    (pc = "preprocessed" /\ REFERENCED \subseteq Names(input.cols)) =>
        /\ Len(ret.ret.cols) = 2
        /\ HasColumn(ret.ret, "target", "v1")
        /\ HasColumn(ret.ret, "text", "v2")
        /\ ret.ret.rows = input.rows

\* the position in the result of the input's i-th column: the columns that
\* are not dropped keep their order
KeptBefore(t, i) ==
    Cardinality({j \in 1..i : t.cols[j].name \notin DROPPED})

\* C7, amended: for an input with at least the five referenced columns, the
\* result has the same rows, target from v1 and text from v2, none of the
\* three dropped columns, and every other input column unchanged; it has
\* exactly the two columns target and text when the input's columns are
\* exactly the five.
C7_TwoColumnsOfFive ==
    (pc = "preprocessed" /\ REFERENCED \subseteq Names(input.cols)) =>
        /\ ret.ret.rows = input.rows
        /\ df = ret.ret
        /\ HasColumn(ret.ret, "target", "v1")
        /\ HasColumn(ret.ret, "text", "v2")
        /\ Names(ret.ret.cols) \cap DROPPED = {}
        /\ Len(ret.ret.cols) = Len(input.cols) - 3
        /\ \A i \in 1..Len(input.cols) :
              input.cols[i].name \notin REFERENCED =>
                  ret.ret.cols[KeptBefore(input, i)] = input.cols[i]
        /\ Len(input.cols) = 5 =>
              /\ Len(ret.ret.cols) = 2
              /\ Names(ret.ret.cols) = {"target", "text"}

C7_Witness ==
    /\ pc = "preprocessed"
    /\ Names(input.cols) = REFERENCED
    /\ input.rows = 1..3
    /\ ret.ret.cols = <<[name |-> "target", data |-> "v1"], [name |-> "text", data |-> "v2"]>>

\* C9: preprocess_data called on the table a first call returned raises
\* KeyError (the dropped columns are gone), logging one more error; it never
\* returns.
C9_SecondCallRaises ==
    /\ pc # "preprocessed_twice"
    /\ pc = "failed_twice" =>
          /\ ret.raised = "KeyError"
          /\ ret.logs = <<Error("preprocess_data", "KeyError")>>
          /\ ErrorsBy("preprocess_data") = 1
          /\ calls = <<"preprocess_data", "preprocess_data">>

C9_Witness ==
    /\ pc = "failed_twice"
    /\ Names(input.cols) = REFERENCED
    /\ Names(df.cols) = {"target", "text"}
    /\ ret.raised = "KeyError"

====
